---------------------------- MODULE Spec2Model ----------------------------
(***************************************************************************)
(* Stacked quantiles (src/src/stacked_quantile/main.py).                   *)
(*                                                                         *)
(* Number model.  The library computes on float64.  Here a value is an     *)
(* integer, a weight is an integer mantissa m with a decimal exponent e    *)
(* shared by the whole weights array (the weight is m / 10^e), a quantile  *)
(* is a fraction <<num, den>>, and a returned float is carried as twice    *)
(* its value (so that the mean of two integers stays an integer).  All     *)
(* arithmetic is exact; the tolerances of np.isclose are kept at their     *)
(* source value 1e-9.                                                      *)
(*                                                                         *)
(* An ndarray is a record [shape, data, exp]: data is the row-major        *)
(* buffer, shape the tuple of dimensions (<<>> for a zero-dimensional       *)
(* array), exp the decimal exponent of the entries (0 for values).         *)
(***************************************************************************)
EXTENDS Integers, Sequences, FiniteSets

VARIABLES called, arg_values, arg_weights, arg_quantile, ret

vars == <<called, arg_values, arg_weights, arg_quantile, ret>>

---------------------------------------------------------------------------
(* Bounds of the explored inputs.                                          *)

MaxLen == 3

MaxW == 2

QDen == 4

TinyExp == 10

BigW == 500000000

MaxCols == 2

(* rtol = atol = 1e-9 = 10^-TolDigits at the np_isclose call.              *)
TolDigits == 9

---------------------------------------------------------------------------
(* Helpers on sequences and numbers.                                       *)

RECURSIVE SumTo(_, _)
SumTo(s, i) == IF i = 0 THEN 0 ELSE SumTo(s, i - 1) + s[i]

RECURSIVE Prod(_)
Prod(s) == IF Len(s) = 0 THEN 1 ELSE Head(s) * Prod(Tail(s))

RECURSIVE Pow10(_)
Pow10(n) == IF n = 0 THEN 1 ELSE 10 * Pow10(n - 1)

Abs(x) == IF x < 0 THEN -x ELSE x

Array(data, exp) == [shape |-> <<Len(data)>>, data |-> data, exp |-> exp]

Scalar0d(x, exp) == [shape |-> <<>>, data |-> <<x>>, exp |-> exp]

Raise(msg) == [kind |-> "raise", error |-> msg]

Return(twice) == [kind |-> "return", twice |-> twice]

---------------------------------------------------------------------------
(* The typed numpy functions (typed_np_functions.py).                      *)

(* np.argsort, default kind: the permutations that put values in ascending *)
(* order.  The default kind is not a stable sort, so the order of equal    *)
(* values is not determined: every admissible permutation is returned.     *)
(* The permutations of 1..n, for the lengths the model uses.                *)
Permutations ==
    [n \in 0..MaxLen |-> {p \in [1..n -> 1..n] : \A i, j \in 1..n : i # j => p[i] # p[j]}]

np_argsort_descending(values) ==
    {p \in Permutations[Len(values)] :
        \A i \in 1..Len(values) : i < Len(values) => values[p[i]] >= values[p[i + 1]]}

np_argsort(values) ==
    {p \in Permutations[Len(values)] :
        \A i \in 1..Len(values) : i < Len(values) => values[p[i]] <= values[p[i + 1]]}

np_cumsum(a) == [i \in 1..Len(a) |-> SumTo(a, i)]

(* np.searchsorted(values, target, side="right"): the number of entries    *)
(* <= target; target is the fraction target[1] / target[2].                *)
np_searchsorted(values, target) ==
    Cardinality({i \in 1..Len(values) : values[i] * target[2] <= target[1]})

(* floor((atol + rtol * |b|) * den * 10^exp / 1) in mantissa units, with   *)
(* atol = rtol = 10^-TolDigits and b = num / den / 10^exp.                 *)
ToleranceUnits(num, den, exp) ==
    IF exp >= TolDigits
    THEN den * Pow10(exp - TolDigits) + (Abs(num) \div Pow10(TolDigits))
    ELSE (den * Pow10(exp) + Abs(num)) \div Pow10(TolDigits)

(* np.isclose(a, b, rtol=1e-9, atol=1e-9): |a - b| <= atol + rtol * |b|,   *)
(* a a mantissa, b the fraction b[1] / b[2], both in units of 10^-exp.     *)
np_isclose(a, b, exp) ==
    Abs(a * b[2] - b[1]) <= ToleranceUnits(b[1], b[2], exp)

---------------------------------------------------------------------------
(* main.py                                                                 *)

sort_values_by_weights(values, weights, sorter) ==
    <<[i \in 1..Len(values) |-> values[sorter[i]]],
      [i \in 1..Len(weights) |-> weights[sorter[i]]]>>

MsgDim == "values and weights must be at least 1-dimensional"

MsgEmpty == "values array is empty"

MsgLength == "values and weights must be the same length"

MsgNegative == "weights must be non-negative"

MsgQuantile == "quantile must be in interval [0, 1]"

MsgShape == "values and weights must have the same shape up to the last axis"

MsgReshape == "cannot reshape array of size 0 into shape (0)"

MsgIndex == "index -1 is out of bounds for axis 0 with size 0"

np_ones_like(a) == [shape |-> a.shape, data |-> [i \in 1..Len(a.data) |-> 1], exp |-> 0]

(* Without the all-zero fallback of lines 87-88.                            *)
validate_without_fallback(values, weights) ==
    IF Len(values.shape) = 0 \/ Len(weights.shape) = 0
    THEN Raise(MsgDim)
    ELSE IF values.shape[1] = 0
    THEN Raise(MsgEmpty)
    ELSE IF values.shape[Len(values.shape)] # weights.shape[Len(weights.shape)]
    THEN Raise(MsgLength)
    ELSE IF \E i \in 1..Len(weights.data) : weights.data[i] < 0
    THEN Raise(MsgNegative)
    ELSE [kind |-> "ok", avalues |-> values, aweights |-> weights]

(* With the sign check of line 84 ahead of the length check of line 81.    *)
validate_negative_first(values, weights) ==
    IF Len(values.shape) = 0 \/ Len(weights.shape) = 0
    THEN Raise(MsgDim)
    ELSE IF values.shape[1] = 0
    THEN Raise(MsgEmpty)
    ELSE IF \E i \in 1..Len(weights.data) : weights.data[i] < 0
    THEN Raise(MsgNegative)
    ELSE IF values.shape[Len(values.shape)] # weights.shape[Len(weights.shape)]
    THEN Raise(MsgLength)
    ELSE IF \A i \in 1..Len(weights.data) : weights.data[i] = 0
    THEN [kind |-> "ok", avalues |-> values, aweights |-> np_ones_like(weights)]
    ELSE [kind |-> "ok", avalues |-> values, aweights |-> weights]

validate_values_and_weights(values, weights) ==
    IF Len(values.shape) = 0 \/ Len(weights.shape) = 0
    THEN Raise(MsgDim)
    ELSE IF values.shape[1] = 0
    THEN Raise(MsgEmpty)
    ELSE IF values.shape[Len(values.shape)] # weights.shape[Len(weights.shape)]
    THEN Raise(MsgLength)
    ELSE IF \E i \in 1..Len(weights.data) : weights.data[i] < 0
    THEN Raise(MsgNegative)
    ELSE IF \A i \in 1..Len(weights.data) : weights.data[i] = 0
    THEN [kind |-> "ok", avalues |-> values, aweights |-> np_ones_like(weights)]
    ELSE [kind |-> "ok", avalues |-> values, aweights |-> weights]

(* Without the filter of line 114.                                         *)
CompressNothing(a, mask) == a

(* a[mask != 0] for one-dimensional a: the entries of a at the positions   *)
(* where mask is not 0, in order.                                          *)
RECURSIVE Compress(_, _)
Compress(a, mask) ==
    IF Len(a) = 0 THEN <<>>
    ELSE IF Head(mask) # 0 THEN <<Head(a)>> \o Compress(Tail(a), Tail(mask))
    ELSE Compress(Tail(a), Tail(mask))

(* With upper = sorted_values[-1] at line 126.                             *)
quantile_of_sorted_last_upper(sorted, exp, quantile) ==
    LET sorted_values == sorted[1]
        sorted_weights == sorted[2]
        cum_aweights == np_cumsum(sorted_weights)
        k == Len(sorted_values)
    IN  IF k = 0 THEN Raise(MsgIndex)
        ELSE
        LET target == <<cum_aweights[k] * quantile[1], quantile[2]>>
            index == np_searchsorted(cum_aweights, target)
        IN  IF index = 0 THEN Return(2 * sorted_values[1])
            ELSE IF index = k THEN Return(2 * sorted_values[k])
            ELSE IF np_isclose(cum_aweights[index], target, exp)
            THEN Return(sorted_values[index] + sorted_values[k])
            ELSE Return(2 * sorted_values[index + 1])

(* Lines 116-139 for one result of np_argsort.                             *)
quantile_of_sorted(sorted, exp, quantile) ==
    LET sorted_values == sorted[1]
        sorted_weights == sorted[2]
        cum_aweights == np_cumsum(sorted_weights)
        k == Len(sorted_values)
    IN  IF k = 0 THEN Raise(MsgIndex)
        ELSE
        LET target == <<cum_aweights[k] * quantile[1], quantile[2]>>
            index == np_searchsorted(cum_aweights, target)
        IN  IF index = 0 THEN Return(2 * sorted_values[1])
            ELSE IF index = k THEN Return(2 * sorted_values[k])
            ELSE IF np_isclose(cum_aweights[index], target, exp)
            THEN Return(sorted_values[index] + sorted_values[index + 1])
            ELSE Return(2 * sorted_values[index + 1])

(* The outcomes of get_stacked_quantile: one per admissible sorter.        *)
get_stacked_quantile(values, weights, quantile) ==
    IF quantile[1] < 0 \/ quantile[1] > quantile[2]
    THEN {Raise(MsgQuantile)}
    ELSE
    LET v == validate_values_and_weights(values, weights)
    IN  IF v.kind = "raise" THEN {v}
        ELSE
        LET avalues == Compress(v.avalues.data, v.aweights.data)
            aweights == Compress(v.aweights.data, v.aweights.data)
        IN  {quantile_of_sorted(sort_values_by_weights(avalues, aweights, sorter),
                                v.aweights.exp, quantile) :
                 sorter \in np_argsort(avalues)}

Half == <<1, 2>>

get_stacked_median(values, weights) == get_stacked_quantile(values, weights, Half)

Leading(shape) == SubSeq(shape, 1, Len(shape) - 1)

(* The list comprehension of line 162 and np.array of line 163: the first  *)
(* call that raises ends the function; otherwise one vector per choice of  *)
(* outcomes.                                                               *)
CollectByAxis(by_axis) ==
    LET m == Len(by_axis)
        raising == {j \in 1..m : \E r \in by_axis[j] : r.kind = "raise"}
    IN  IF raising # {}
        THEN {r \in by_axis[CHOOSE j \in raising : \A i \in raising : j <= i] :
                 r.kind = "raise"}
        ELSE LET T == UNION {{r.twice : r \in by_axis[j]} : j \in 1..m}
             IN  {Return(t) : t \in {f \in [1..m -> T] :
                                       \A j \in 1..m : Return(f[j]) \in by_axis[j]}}

(* Without the transposition of line 160: the rows of the reshaped array.  *)
get_stacked_quantiles_by_row(values, weights, quantile) ==
    IF Leading(values.shape) # Leading(weights.shape)
    THEN {Raise(MsgShape)}
    ELSE
    LET m == values.shape[Len(values.shape)]
        size == Len(values.data)
    IN  IF m = 0 \/ size % m # 0
        THEN {Raise(MsgReshape)}
        ELSE
        LET n == size \div m
            flat_vectors == [r \in 1..n |->
                Array([j \in 1..m |-> values.data[(r - 1) * m + j]], values.exp)]
            flat_weights == Array(weights.data, weights.exp)
        IN  CollectByAxis([r \in 1..n |->
                get_stacked_quantile(flat_vectors[r], flat_weights, quantile)])

(* values.reshape(-1, values.shape[-1]) raises when the last dimension is  *)
(* 0 (numpy cannot infer the unknown dimension) and otherwise gives n rows *)
(* of m entries over the same row-major buffer; .T turns its m columns     *)
(* into the vectors; weights.flatten() is the buffer of weights.           *)
get_stacked_quantiles(values, weights, quantile) ==
    IF Leading(values.shape) # Leading(weights.shape)
    THEN {Raise(MsgShape)}
    ELSE
    LET m == values.shape[Len(values.shape)]
        size == Len(values.data)
    IN  IF m = 0 \/ size % m # 0
        THEN {Raise(MsgReshape)}
        ELSE
        LET n == size \div m
            flat_vectors == [j \in 1..m |->
                Array([r \in 1..n |-> values.data[(r - 1) * m + j]], values.exp)]
            flat_weights == Array(weights.data, weights.exp)
        IN  CollectByAxis([j \in 1..m |->
                get_stacked_quantile(flat_vectors[j], flat_weights, quantile)])

get_stacked_medians(values, weights) == get_stacked_quantiles(values, weights, Half)

---------------------------------------------------------------------------
(* Inputs.                                                                 *)

SeqsUpTo(S, lo, hi) == UNION {[1..n -> S] : n \in lo..hi}

ValueSet == {1, 2, 4}

(* No weight, the unit weight and the largest weight.                      *)
WeightSet == {0, 1, MaxW}

WExps == {0, TinyExp}

Quantiles == {<<n, QDen>> : n \in 0..QDen}

(* Quantiles below 0 and above 1, with the valid ones.                     *)
AnyQuantiles == Quantiles \cup {<<0 - 1, QDen>>, <<QDen + 1, QDen>>}

NoQuantile == <<0, 0>>

NoReturn == [kind |-> "none"]

(* Well-formed scalar calls: equally long one-dimensional arrays, weights  *)
(* >= 0 (possibly all 0), at unit or tiny scale.                           *)
InitScalar ==
    /\ called = "none"
    /\ arg_quantile = NoQuantile
    /\ ret = NoReturn
    /\ \E n \in 1..MaxLen :
         /\ arg_values \in {Array(d, 0) : d \in [1..n -> ValueSet]}
         /\ arg_weights \in {Array(d, e) : d \in [1..n -> WeightSet], e \in WExps}

CallGetStackedQuantile(Q) ==
    /\ called = "none"
    /\ \E q \in Q :
         /\ arg_quantile' = q
         /\ ret' \in get_stacked_quantile(arg_values, arg_weights, q)
    /\ called' = "get_stacked_quantile"
    /\ UNCHANGED <<arg_values, arg_weights>>

CallGetStackedMedian ==
    /\ called = "none"
    /\ arg_quantile' = Half
    /\ ret' \in get_stacked_median(arg_values, arg_weights)
    /\ called' = "get_stacked_median"
    /\ UNCHANGED <<arg_values, arg_weights>>

NextQuantile == CallGetStackedQuantile(Quantiles)

Spec == InitScalar /\ [][NextQuantile]_vars

(* Scalar calls with any arguments: zero- or one-dimensional arrays of     *)
(* independent lengths (0 included), weights that may be negative.         *)
ErrValueSet == {1, 2}

ErrWeightSet == {0 - 1, 0, 1}

InitAny ==
    /\ called = "none"
    /\ arg_quantile = NoQuantile
    /\ ret = NoReturn
    /\ arg_values \in {Array(d, 0) : d \in SeqsUpTo(ErrValueSet, 0, MaxLen)}
                        \cup {Scalar0d(x, 0) : x \in ErrValueSet}
    /\ arg_weights \in {Array(d, 0) : d \in SeqsUpTo(ErrWeightSet, 0, MaxLen)}
                         \cup {Scalar0d(x, 0) : x \in ErrWeightSet}

NextAny == CallGetStackedQuantile(AnyQuantiles) \/ CallGetStackedMedian

SpecAny == InitAny /\ [][NextAny]_vars

(* Median calls with positive integer weights, small or large.             *)
InitOccurrences ==
    /\ called = "none"
    /\ arg_quantile = NoQuantile
    /\ ret = NoReturn
    /\ \/ \E n \in 1..MaxLen :
             /\ arg_values \in {Array(d, 0) : d \in [1..n -> ValueSet]}
             /\ arg_weights \in {Array(d, 0) : d \in [1..n -> 1..MaxW]}
       \/ /\ arg_values \in {Array(d, 0) : d \in [1..2 -> ValueSet]}
          /\ arg_weights \in {Array(d, 0) : d \in [1..2 -> {BigW, BigW + 1}]}

NextMedian == CallGetStackedMedian

SpecOccurrences == InitOccurrences /\ [][NextMedian]_vars

(* Batch calls: a values tensor of shape leading + (m,) and a weights      *)
(* tensor of shape leading' + (1,), the two leading shapes independent.    *)
LeadingShapes == {<<>>, <<1>>, <<2>>, <<1, 1>>, <<1, 2>>, <<2, 1>>}

Tensor(leading, m, data, exp) == [shape |-> leading \o <<m>>, data |-> data, exp |-> exp]

InitBatch ==
    /\ called = "none"
    /\ arg_quantile = NoQuantile
    /\ ret = NoReturn
    /\ \E l \in LeadingShapes, m \in 0..MaxCols :
          arg_values \in {Tensor(l, m, d, 0) : d \in [1..(Prod(l) * m) -> ErrValueSet]}
    /\ \E l \in LeadingShapes :
          arg_weights \in {Tensor(l, 1, d, 0) : d \in [1..Prod(l) -> ErrWeightSet]}

CallGetStackedQuantiles ==
    /\ called = "none"
    /\ \E q \in AnyQuantiles :
         /\ arg_quantile' = q
         /\ ret' \in get_stacked_quantiles(arg_values, arg_weights, q)
    /\ called' = "get_stacked_quantiles"
    /\ UNCHANGED <<arg_values, arg_weights>>

CallGetStackedMedians ==
    /\ called = "none"
    /\ arg_quantile' = Half
    /\ ret' \in get_stacked_medians(arg_values, arg_weights)
    /\ called' = "get_stacked_medians"
    /\ UNCHANGED <<arg_values, arg_weights>>

NextBatch == CallGetStackedQuantiles \/ CallGetStackedMedians

SpecBatch == InitBatch /\ [][NextBatch]_vars

---------------------------------------------------------------------------
(* Definitions shared by the properties of the scalar engine.              *)

QuantileReturned == called = "get_stacked_quantile" /\ ret.kind = "return"

Permuted(a, p) == [a EXCEPT !.data = [i \in 1..Len(a.data) |-> a.data[p[i]]]]

(* The weights that count after validation: all ones when every weight is  *)
(* 0, the given weights otherwise.                                         *)
CountedWeights(weights) ==
    IF \A i \in 1..Len(weights.data) : weights.data[i] = 0
    THEN [i \in 1..Len(weights.data) |-> 1]
    ELSE weights.data

SurvivingIndices(weights) ==
    {i \in 1..Len(weights.data) : CountedWeights(weights)[i] # 0}

SurvivingValues(values, weights) ==
    {values.data[i] : i \in SurvivingIndices(weights)}

(* Twice the means of two values of V that are neighbours in the ascending *)
(* order of V (equal neighbours give the value itself).                    *)
AdjacentMeans(V) ==
    {p[1] + p[2] :
        p \in {q \in V \X V : q[1] < q[2] /\ ~ \E d \in V : q[1] < d /\ d < q[2]}}

ValuesOrAdjacentMeans(V) == {2 * a : a \in V} \cup AdjacentMeans(V)

SetMin(S) == CHOOSE x \in S : \A y \in S : x <= y

SetMax(S) == CHOOSE x \in S : \A y \in S : y <= x

---------------------------------------------------------------------------
(* C2.  Scaling every weight by a positive constant c leaves the result of *)
(* get_stacked_quantile unchanged.  The constants tried are                *)
(* c = k * 10^(e - e') for k in 1..MaxScale and exponents e, e' in WExps.  *)

MaxScale == 3

ScaledWeights(weights, k, e) ==
    [weights EXCEPT !.data = [i \in 1..Len(weights.data) |-> k * weights.data[i]],
                    !.exp = e]

C2_ScalingInvariant ==
    QuantileReturned =>
        \A k \in 1..MaxScale, e \in WExps :
            get_stacked_quantile(arg_values, ScaledWeights(arg_weights, k, e),
                                 arg_quantile)
              = get_stacked_quantile(arg_values, arg_weights, arg_quantile)

---------------------------------------------------------------------------
(* C3.  With weights that are all exactly 0, get_stacked_quantile returns  *)
(* (it raises nothing) what it returns with weights that are all ones.     *)

AllZero(weights) == \A i \in 1..Len(weights.data) : weights.data[i] = 0

Ones(n) == Array([i \in 1..n |-> 1], 0)

C3_AllZeroIsUnweighted ==
    (/\ called = "get_stacked_quantile"
     /\ arg_quantile[1] >= 0 /\ arg_quantile[1] <= arg_quantile[2]
     /\ AllZero(arg_weights)) =>
        /\ ret.kind = "return"
        /\ get_stacked_quantile(arg_values, Ones(Len(arg_values.data)), arg_quantile)
             = {ret}

C3_Witness ==
    /\ called = "get_stacked_quantile"
    /\ AllZero(arg_weights)
    /\ arg_weights.exp = TinyExp
    /\ arg_values.data = <<4, 1, 2>>
    /\ arg_quantile = <<QDen, QDen>>
    /\ ret = Return(8)

---------------------------------------------------------------------------
(* C4.  With at least one positive weight, the entries of weight 0 do not  *)
(* affect the result: the outcomes are those of the call on the pair with  *)
(* the weight-0 entries removed, and they stay the same when the values of *)
(* the weight-0 entries are replaced by any other values.                  *)

RECURSIVE Without0(_, _)
Without0(a, weights) ==
    IF Len(a) = 0 THEN <<>>
    ELSE IF weights[Len(a)] = 0
    THEN Without0(SubSeq(a, 1, Len(a) - 1), weights)
    ELSE Append(Without0(SubSeq(a, 1, Len(a) - 1), weights), a[Len(a)])

HasZeroAndPositive(weights) ==
    /\ \E i \in 1..Len(weights.data) : weights.data[i] = 0
    /\ \E i \in 1..Len(weights.data) : weights.data[i] > 0

C4_ZeroWeightIgnored ==
    (QuantileReturned /\ HasZeroAndPositive(arg_weights)) =>
        /\ ret \in get_stacked_quantile(
                      Array(Without0(arg_values.data, arg_weights.data), 0),
                      Array(Without0(arg_weights.data, arg_weights.data), arg_weights.exp),
                      arg_quantile)
        /\ LET outcomes == get_stacked_quantile(arg_values, arg_weights, arg_quantile)
           IN  \A other \in [1..Len(arg_values.data) -> ValueSet] :
                  (\A i \in 1..Len(other) :
                      arg_weights.data[i] # 0 => other[i] = arg_values.data[i])
                  => get_stacked_quantile(Array(other, 0), arg_weights, arg_quantile)
                       = outcomes

C4_Witness ==
    /\ QuantileReturned
    /\ arg_values.data = <<1, 4, 2>>
    /\ arg_weights.data = <<1, 0, 1>>
    /\ arg_quantile = <<2, QDen>>
    /\ ret = Return(3)

---------------------------------------------------------------------------
(* C5.  As claimed: the result is an input value or the mean of two input  *)
(* values that are adjacent in the ascending order of the input values.    *)

AllValues(values) == {values.data[i] : i \in 1..Len(values.data)}

C5_ValueOrAdjacentInputMean ==
    QuantileReturned => ret.twice \in ValuesOrAdjacentMeans(AllValues(arg_values))

(* C5, amended.  The result is an input value of non-zero weight (after    *)
(* validation) or the mean of two such values that are adjacent in the     *)
(* ascending order of the input values of non-zero weight.                 *)
C5_ValueOrAdjacentSurvivorMean ==
    QuantileReturned =>
        ret.twice \in ValuesOrAdjacentMeans(SurvivingValues(arg_values, arg_weights))

C5_Witness ==
    /\ QuantileReturned
    /\ arg_values.data = <<4, 2, 1>>
    /\ arg_weights.data = <<1, 0, 1>>
    /\ arg_quantile = <<2, QDen>>
    /\ ret = Return(5)

---------------------------------------------------------------------------
(* C9.  For each order np_argsort may produce, the result is monotone      *)
(* non-decreasing in the quantile; at quantile 0 it is the smallest and at *)
(* quantile 1 the largest value of non-zero weight after validation, and   *)
(* every result lies between the two.                                      *)

InRange(q) == q[1] >= 0 /\ q[1] <= q[2]

LessEqQ(p, q) == p[1] * q[2] <= q[1] * p[2]

(* The sorted (values, weights) pairs np_argsort may lead to.               *)
SortedOrders(avalues, aweights) ==
    {sort_values_by_weights(avalues, aweights, sorter) : sorter \in np_argsort(avalues)}

MonotoneFrom(orders, exp, lo, hi) ==
    /\ 2 * lo <= ret.twice /\ ret.twice <= 2 * hi
    /\ arg_quantile[1] = 0 => ret.twice = 2 * lo
    /\ arg_quantile[1] = arg_quantile[2] => ret.twice = 2 * hi
    /\ \A sorted \in orders :
          quantile_of_sorted(sorted, exp, arg_quantile) = ret =>
             \A q2 \in Quantiles :
                LessEqQ(arg_quantile, q2) =>
                    ret.twice <= quantile_of_sorted(sorted, exp, q2).twice

SurvivorsMonotone(w, exp, V) ==
    MonotoneFrom(SortedOrders(Compress(arg_values.data, w), Compress(w, w)), exp,
                 SetMin(V), SetMax(V))

C9_MonotoneInQuantile ==
    QuantileReturned =>
        SurvivorsMonotone(CountedWeights(arg_weights),
                          IF AllZero(arg_weights) THEN 0 ELSE arg_weights.exp,
                          SurvivingValues(arg_values, arg_weights))

C9_Witness ==
    /\ QuantileReturned
    /\ arg_values.data = <<2, 4, 1>>
    /\ arg_weights.data = <<1, 2, 1>>
    /\ arg_weights.exp = TinyExp
    /\ arg_quantile = <<1, QDen>>
    /\ ret = Return(3)

---------------------------------------------------------------------------
(* C10.  The result does not depend on the order of the input pairs:       *)
(* every joint permutation of values and weights, with every order the     *)
(* sort may give equal values, yields the result of the call.              *)

C10_OrderIndependent ==
    QuantileReturned =>
        \A p \in Permutations[Len(arg_values.data)] :
            get_stacked_quantile(Permuted(arg_values, p), Permuted(arg_weights, p),
                                 arg_quantile) = {ret}

---------------------------------------------------------------------------
(* C1.  With positive integer weights, get_stacked_median returns the      *)
(* ordinary median of the values repeated weight-many times: the middle    *)
(* occurrence when their number is odd, the mean of the two middle         *)
(* occurrences when it is even.                                            *)

RECURSIVE OccurrencesUpTo(_, _, _, _)
OccurrencesUpTo(values, weights, v, i) ==
    IF i = 0 THEN 0
    ELSE OccurrencesUpTo(values, weights, v, i - 1)
           + (IF values[i] <= v THEN weights[i] ELSE 0)

(* The p-th smallest entry of np.repeat(values, weights).                  *)
OccurrenceAt(values, weights, p) ==
    SetMin({values[i] : i \in {j \in 1..Len(values) :
                OccurrencesUpTo(values, weights, values[j], Len(values)) >= p}})

(* Twice np.median(np.repeat(values, weights)).                            *)
np_median_of_repeat(values, weights) ==
    LET n == SumTo(weights, Len(weights))
    IN  IF n % 2 = 1
        THEN 2 * OccurrenceAt(values, weights, (n + 1) \div 2)
        ELSE OccurrenceAt(values, weights, n \div 2)
               + OccurrenceAt(values, weights, n \div 2 + 1)

C1_MedianOfOccurrences ==
    called = "get_stacked_median" =>
        ret = Return(np_median_of_repeat(arg_values.data, arg_weights.data))

---------------------------------------------------------------------------
(* C6.  get_stacked_quantile classifies its arguments in a fixed order: a  *)
(* quantile outside [0, 1] first, then a zero-dimensional array, then an   *)
(* empty values array, then differing lengths, then a negative weight; an  *)
(* argument list that passes the five checks returns a value.              *)

ExpectedError(values, weights, quantile) ==
    IF quantile[1] < 0 \/ quantile[1] > quantile[2] THEN MsgQuantile
    ELSE IF values.shape = <<>> \/ weights.shape = <<>> THEN MsgDim
    ELSE IF Len(values.data) = 0 THEN MsgEmpty
    ELSE IF Len(values.data) # Len(weights.data) THEN MsgLength
    ELSE IF \E i \in 1..Len(weights.data) : weights.data[i] < 0 THEN MsgNegative
    ELSE ""

---------------------------------------------------------------------------
(* C7.  As claimed: with equal leading shapes (and arguments the scalar    *)
(* function accepts) get_stacked_quantiles returns a vector of length m    *)
(* whose j-th element is get_stacked_quantile of column j of the values    *)
(* flattened to (N, m) and the flattened weights; the result is the same   *)
(* for every reshape of the leading dimensions, and element j depends on   *)
(* column j only.                                                          *)

Last(shape) == shape[Len(shape)]

Column(values, j) ==
    LET m == Last(values.shape)
    IN  Array([r \in 1..(Len(values.data) \div m) |-> values.data[m * (r - 1) + j]], 0)

BatchAccepted ==
    /\ called = "get_stacked_quantiles"
    /\ Leading(arg_values.shape) = Leading(arg_weights.shape)
    /\ InRange(arg_quantile)
    /\ \A i \in 1..Len(arg_weights.data) : arg_weights.data[i] >= 0

ColumnwiseResult ==
    /\ ret.kind = "return"
    /\ Len(ret.twice) = Last(arg_values.shape)
    /\ \A j \in 1..Last(arg_values.shape) :
          Return(ret.twice[j])
            \in get_stacked_quantile(Column(arg_values, j),
                                     Array(arg_weights.data, 0), arg_quantile)
    /\ \A l \in LeadingShapes :
          Prod(l) = Prod(Leading(arg_values.shape)) =>
             get_stacked_quantiles([arg_values EXCEPT !.shape = l \o <<Last(@)>>],
                                   [arg_weights EXCEPT !.shape = l \o <<1>>],
                                   arg_quantile)
               = get_stacked_quantiles(arg_values, arg_weights, arg_quantile)
    /\ \A d \in [1..Len(arg_values.data) -> ErrValueSet] :
          LET other == [arg_values EXCEPT !.data = d]
          IN  \A j \in 1..Last(arg_values.shape) :
                 Column(other, j) = Column(arg_values, j) =>
                    {r.twice[j] : r \in get_stacked_quantiles(other, arg_weights, arg_quantile)}
                      = {r.twice[j] : r \in get_stacked_quantiles(arg_values, arg_weights,
                                                                  arg_quantile)}

---------------------------------------------------------------------------
(* C8.  A batch call with a quantile outside [0, 1], a negative weight or  *)
(* disagreeing leading shapes raises the corresponding error, for every    *)
(* number of columns m >= 0.                                               *)

BatchCalled == called \in {"get_stacked_quantiles", "get_stacked_medians"}

CorrespondingErrors ==
    (IF ~ InRange(arg_quantile) THEN {MsgQuantile} ELSE {})
      \cup (IF \E i \in 1..Len(arg_weights.data) : arg_weights.data[i] < 0
            THEN {MsgNegative} ELSE {})
      \cup (IF Leading(arg_values.shape) # Leading(arg_weights.shape)
            THEN {MsgShape} ELSE {})

C8_BatchChecksEager ==
    (BatchCalled /\ CorrespondingErrors # {}) =>
        (ret.kind = "raise" /\ ret.error \in CorrespondingErrors)

=============================================================================
